---- MODULE Spec2Model ----
(***************************************************************************)
(* Large-file scanners of find-large-files-graphql: the per-directory      *)
(* GraphQL walkers (LIFO stack, FIFO queue, recursive), the flat-tree      *)
(* scanners, the nested single-query scanners, and the batch loops that    *)
(* drive them, run against a small remote backend.                         *)
(*                                                                         *)
(* A path is the sequence of its "/"-separated names; the root is <<>>.    *)
(* A size in KB or MB rounded to 2 decimals is kept in hundredths.         *)
(***************************************************************************)
EXTENDS Integers, Sequences, FiniteSets, TLC

VARIABLES
    program,          \* which script runs
    repos,            \* the input list: one backend description per row
    threshold_kb,     \* the threshold the script compares against
    max_files,        \* args.max_files_per_repo (github-graphql-scanner.py)
    idx,              \* 1-based position of the batch loop in repos
    pc,               \* "next" | "walk" | "done" | "crashed"
    stack,            \* walk_tree: pending directory paths (LIFO)
    contents,         \* scan_repo_for_large_files: pending content entries (FIFO)
    frames,           \* walk_tree_recursive: the call stack, innermost first
    large_files,      \* the records of the traversal in progress
    fetched,          \* the directory paths fetched by the traversal in progress
    all_large_files,  \* the batch's records (flat list scripts)
    results,          \* the batch's per-repository results (dict scripts)
    errlog,           \* the errors and warnings logged, in order
    written,          \* whether the report was handed to the sink
    report,           \* the rows handed to the sink, in their order
    args,             \* the run's settings: credentials and pauses
    auth,             \* the Authorization value the run's requests carry
    sent,             \* the outbound requests, in the order they were issued
    attempt,          \* run_query: the loop variable of the call in progress
    slept,            \* run_query: the delays slept for the call in progress
    clock,            \* seconds since the start of the run
    quota,            \* the rate limit the last answer reported
    head,             \* the commit the default branch points to (the backend's)
    revision,         \* what the scan in progress resolved as its revision
    evaluated         \* the commit each fetch of the traversal was evaluated against

\* the variables of the transport: requests, credentials, time
netVars == <<args, auth, sent, attempt, slept, clock, quota>>

\* the variables of the revision: the head of the default branch, what the
\* scan resolved, the commit each directory request was evaluated against
revVars == <<head, revision, evaluated>>

vars == <<program, repos, threshold_kb, max_files, idx, pc, stack, contents,
          frames, large_files, fetched, all_large_files, results, errlog, written,
          report, args, auth, sent, attempt, slept, clock, quota,
          head, revision, evaluated>>

-----------------------------------------------------------------------------
(* Bounds of the model *)

MaxRepos == 2
MaxHead == 2
MaxFetch == 6
MaxCut == 2
NumCallers == 3

(* Program constants *)

BytesPerKB == 1024
GraphqlThresholdKB == 50
RestThresholdKB == 20
Csv7SizeLimitKB == 1024
ScanRepos1ThresholdKB == 1024
DefaultThresholdKB == 1000
ScannerDefaultThresholdKB == 1024
ScannerDefaultMaxFiles == 10
FindThresholdKB == 10
Retries == 3
RetrySleep == 1
LongPause == 40 * 60
TokenLifetime == 60 * 60
QueryLevels == 2
NoSize == -1

-----------------------------------------------------------------------------
(* Sequence helpers *)

Last(s) == s[Len(s)]

Front(s) == SubSeq(s, 1, Len(s) - 1)

Range(s) == {s[i] : i \in 1..Len(s)}

NoDuplicates(s) == \A i, j \in 1..Len(s) : s[i] = s[j] => i = j

\* list.sort / sorted by descending key: stable, equal keys keep their order
RECURSIVE InsertDesc(_, _)
InsertDesc(x, sorted) ==
    IF sorted = <<>> THEN <<x>>
    ELSE IF x.k >= Head(sorted).k THEN <<x>> \o sorted
    ELSE <<Head(sorted)>> \o InsertDesc(x, Tail(sorted))

RECURSIVE SortPairsDesc(_)
SortPairsDesc(pairs) ==
    IF pairs = <<>> THEN <<>>
    ELSE InsertDesc(Head(pairs), SortPairsDesc(Tail(pairs)))

\* keys[i] is the key of s[i]
SortDescBy(s, keys) ==
    LET sorted == SortPairsDesc([i \in 1..Len(s) |-> [k |-> keys[i], v |-> s[i]]])
    IN  [i \in 1..Len(s) |-> sorted[i].v]

-----------------------------------------------------------------------------
(* The backend: repository trees *)

Root == <<>>

Blob(path, size) == [name |-> Last(path), path |-> path, type |-> "blob", size |-> size]

Tree(path) == [name |-> Last(path), path |-> path, type |-> "tree", size |-> NoSize]

Commit(path) == [name |-> Last(path), path |-> path, type |-> "commit", size |-> NoSize]

\* {a.txt: 500KB, b/c.bin: 2048KB, b/d.txt: 10KB}
FxExample ==
    (Root :> <<Blob(<<"a.txt">>, 500 * BytesPerKB), Tree(<<"b">>)>>)
    @@ (<<"b">> :> <<Blob(<<"b", "c.bin">>, 2048 * BytesPerKB),
                     Blob(<<"b", "d.txt">>, 10 * BytesPerKB)>>)

\* a qualifying blob three levels down
FxDeep ==
    (Root :> <<Tree(<<"b">>)>>)
    @@ (<<"b">> :> <<Tree(<<"b", "e">>), Blob(<<"b", "c.bin">>, 2048 * BytesPerKB)>>)
    @@ (<<"b", "e">> :> <<Blob(<<"b", "e", "f.bin">>, 3072 * BytesPerKB)>>)

\* directory b lists itself again
FxCycle ==
    (Root :> <<Tree(<<"b">>)>>)
    @@ (<<"b">> :> <<Blob(<<"b", "c.bin">>, 2048 * BytesPerKB), Tree(<<"b">>)>>)

\* two sibling directories, four qualifying blobs, and a submodule entry
FxMany ==
    (Root :> <<Blob(<<"a.txt">>, 1500 * BytesPerKB), Blob(<<"g.bin">>, 4096 * BytesPerKB),
               Commit(<<"sub">>), Tree(<<"b">>), Tree(<<"d">>)>>)
    @@ (<<"b">> :> <<Blob(<<"b", "c.bin">>, 2048 * BytesPerKB)>>)
    @@ (<<"d">> :> <<Blob(<<"d", "h.bin">>, 5120 * BytesPerKB)>>)

\* blobs just below, at and just above t KB
FxEdge(t) ==
    (Root :> <<Blob(<<"lo.bin">>, t * BytesPerKB - 1), Blob(<<"eq.bin">>, t * BytesPerKB),
               Tree(<<"b">>)>>)
    @@ (<<"b">> :> <<Blob(<<"b", "hi.bin">>, t * BytesPerKB + 1)>>)

\* nothing above any threshold
FxSmall ==
    (Root :> <<Blob(<<"a.txt">>, 1 * BytesPerKB), Tree(<<"b">>)>>)
    @@ (<<"b">> :> <<Blob(<<"b", "d.txt">>, 2 * BytesPerKB)>>)

\* two blobs of 1152 KB = 1.125 MB listed against the order of their paths,
\* a blob of 2048.125 KB, and a blob entry whose object is null
FxTies ==
    (Root :> <<Blob(<<"z.bin">>, 1152 * BytesPerKB), Blob(<<"m.bin">>, 1152 * BytesPerKB),
               Blob(<<"k.bin">>, 2048 * BytesPerKB + 128), Blob(<<"n.bin">>, NoSize)>>)

FixtureIds == {"example", "deep", "cycle", "many", "edge", "small", "ties"}

TreeOf(fx, t) ==
    CASE fx = "example" -> FxExample
      [] fx = "deep" -> FxDeep
      [] fx = "cycle" -> FxCycle
      [] fx = "many" -> FxMany
      [] fx = "edge" -> FxEdge(t)
      [] fx = "ties" -> FxTies
      [] OTHER -> FxSmall


-----------------------------------------------------------------------------
(* Repository descriptions: what the backend answers for one input row *)

GoodIdent == <<"acme", "widgets">>

UrlIdent == <<"https:", "", "github.com", "acme", "widgets">>

\* identifiers as their "/"-separated parts (str.split("/"))
Idents ==
    { GoodIdent,
      <<"zeta", "app">>,
      UrlIdent,
      <<"acme">>,
      <<"">>,
      <<"acme", "widgets", "extra">> }

\* info: the answer to the repository / default-branch query
\*   "ok" | "null" (repository: null) | "http" (non-200) | "nobranch"
\* tree_status: the status of the flat-tree request
\* cut: how many entries the flat listing lacks at its end (0: complete)
\* fail: the directories whose per-directory request is answered fail_status
\* flaky: the statuses of the first answers of a run of find-large-files.py
\* errors: the 200 answers carry an "errors" array next to their data
\* remaining, reset_in: the rate limit the answers report, the reset being
\*   reset_in seconds after the answer
GoodRepo ==
    [ident |-> GoodIdent, info |-> "ok", tree_status |-> 200, cut |-> 0,
     fx |-> "example", fail |-> {}, fail_status |-> 502, flaky |-> <<>>,
     errors |-> FALSE, remaining |-> 4999, reset_in |-> 900]

Programs ==
    {"graphql", "csv6", "pygithub", "scanner", "rest", "csv7", "scan_repos1", "csv",
     "find", "callers", "get_tree_entries"}

SingleRepoPrograms == {"graphql", "rest", "find"}

FlatPrograms == {"scanner", "rest"}

WalkPrograms == {"graphql", "csv6", "pygithub"}

ThresholdsOf(p) ==
    CASE p = "graphql" -> {GraphqlThresholdKB}
      [] p = "rest" -> {RestThresholdKB}
      [] p = "find" -> {FindThresholdKB}
      [] p = "csv7" -> {Csv7SizeLimitKB}
      [] p = "scan_repos1" -> {ScanRepos1ThresholdKB}
      [] p = "scanner" -> {ScannerDefaultThresholdKB}
      [] OTHER -> {DefaultThresholdKB}

\* args.max_files_per_repo: the default, or a smaller cap
MaxFilesOf(p) == IF p = "scanner" THEN {2, ScannerDefaultMaxFiles} ELSE {0}

Dirs(fx, t) == DOMAIN TreeOf(fx, t)

\* the answers before the backend settles on 200: server errors that pass,
\* server errors that stay, client errors
FlakyAnswers ==
    { <<502>>, <<502, 503>>, <<502, 503, 500>>, <<200, 503>>, <<200, 502, 502, 502>>,
      <<404>>, <<404, 404, 404>>, <<401, 401, 401>>, <<200, 403>> }

\* the well-formed row of a script's input: scan_repos1.py reads URLs
GoodRepoOf(p) ==
    IF p = "scan_repos1" THEN [GoodRepo EXCEPT !.ident = UrlIdent] ELSE GoodRepo

RepoChoices(p, t) ==
    LET good == GoodRepoOf(p)
    IN  (IF p \in SingleRepoPrograms THEN {}
         ELSE {[good EXCEPT !.ident = i] : i \in Idents})
        \cup {[good EXCEPT !.info = x] : x \in {"ok", "null", "http", "nobranch"}}
        \cup (IF p \in WalkPrograms
              THEN UNION {{[good EXCEPT !.fx = f, !.fail = s] :
                              s \in {{}} \cup {{d} : d \in Dirs(f, t)}} : f \in FixtureIds}
                   \cup {[good EXCEPT !.fail = {d}, !.fail_status = 404] :
                            d \in Dirs(good.fx, t)}
              ELSE {[good EXCEPT !.fx = f] : f \in FixtureIds \ {"cycle"}})
        \cup (IF p = "find"
              THEN {[good EXCEPT !.flaky = f] : f \in FlakyAnswers}
              ELSE {})
        \cup (IF p = "scanner"
              THEN {[good EXCEPT !.remaining = 0]}
              ELSE {})
        \cup (IF p \in {"scanner", "csv7", "csv6"}
              THEN {[good EXCEPT !.errors = TRUE]}
              ELSE {})
        \cup (IF p \in FlatPrograms
              THEN {[good EXCEPT !.tree_status = 404]}
                   \cup {[good EXCEPT !.fx = f, !.cut = c] :
                            f \in FixtureIds \ {"cycle"}, c \in 0..MaxCut}
              ELSE {})

Batches(p, t) ==
    IF p = "callers" THEN {<<>>}
    ELSE IF p = "get_tree_entries"
    THEN {<<[GoodRepo EXCEPT !.info = x]>> : x \in {"ok", "null"}}
    ELSE IF p \in SingleRepoPrograms
    THEN {<<r>> : r \in RepoChoices(p, t)}
    ELSE {[i \in 1..n |-> IF i = k THEN r ELSE GoodRepoOf(p)] :
             n \in 1..MaxRepos, k \in 1..MaxRepos, r \in RepoChoices(p, t)}

-----------------------------------------------------------------------------
(* The structured-query endpoint *)

\* the expression "<rev>:<path>" (colon) or "<rev>" alone
Expression(path) == [colon |-> TRUE, path |-> path]

\* repository.object(expression): "tree" with its entries, "other" for an
\* object that is no tree (the "... on Tree" fragment selects nothing), or "null"
TreeQuery(r, t, expr) ==
    LET tree == TreeOf(r.fx, t)
        blobs == {e.path : e \in UNION {Range(tree[d]) : d \in DOMAIN tree}}
    IN  [status |-> IF r.info = "http" THEN 502
                    ELSE IF expr.path \in r.fail THEN r.fail_status
                    ELSE 200,
         repository |-> r.info # "null",
         object |-> IF ~expr.colon THEN "other"
                    ELSE IF expr.path \in DOMAIN tree THEN "tree"
                    ELSE IF expr.path \in blobs THEN "other"
                    ELSE "null",
         entries |-> IF expr.colon /\ expr.path \in DOMAIN tree
                     THEN tree[expr.path] ELSE <<>>]

\* get_tree_entries of the csv scripts: raises on a non-200 answer and on a
\* null repository or object (None has no .get)
GetTreeEntriesCsv(r, t, expr) ==
    LET resp == TreeQuery(r, t, expr)
    IN  IF resp.status # 200 THEN [raised |-> TRUE, entries |-> <<>>]
        ELSE IF ~resp.repository \/ resp.object = "null"
             THEN [raised |-> TRUE, entries |-> <<>>]
        ELSE [raised |-> FALSE, entries |-> resp.entries]

\* get_tree_entries of find-large-files-graphql.py: raises on a non-200 answer
\* and on a null repository; a null or non-tree object gives []
GetTreeEntriesGraphql(r, t, expr) ==
    LET resp == TreeQuery(r, t, expr)
    IN  IF resp.status # 200 \/ ~resp.repository THEN [raised |-> TRUE, entries |-> <<>>]
        ELSE [raised |-> FALSE, entries |-> resp.entries]

\* the paths get_tree_entries is asked for: the root, a directory, a blob,
\* a path the tree does not have
ExpressionPaths == {Root, <<"b">>, <<"b", "c.bin">>, <<"b", "nope">>}

-----------------------------------------------------------------------------
(* Size classification *)

\* round(num / den, 2) in hundredths: Python rounds the exact quotient half to even
Round2(num, den) ==
    LET q == (num * 100) \div den
        rem == (num * 100) % den
    IN  IF 2 * rem > den THEN q + 1
        ELSE IF 2 * rem = den THEN q + (q % 2)
        ELSE q

\* size_kb > threshold_kb with size_kb = size_bytes / 1024
ExceedsKB(size_bytes, t) == size_bytes > t * BytesPerKB

\* size_kb >= SIZE_THRESHOLD_KB
AtLeastKB(size_bytes, t) == size_bytes >= t * BytesPerKB


-----------------------------------------------------------------------------
(* Shared steps *)

Log(level, what) == errlog \o <<[i |-> idx, level |-> level, what |-> what]>>

RepoName(r) == <<r.ident[1], r.ident[2]>>

\* an outbound request: its endpoint, the row and the call it belongs to, the
\* status it was answered with, when it was issued, the Authorization it carried
Request(to, what, status) ==
    [to |-> to, repo |-> idx, what |-> what, status |-> status, at |-> clock,
     bearer |-> auth.bearer, remaining |-> NoSize, resetAt |-> NoSize]

\* the frame of the caller of the outermost traversal call
RootEntry == [name |-> "", path |-> Root, type |-> "tree", size |-> NoSize]

\* the settings of a run that gives a static token; exchange and viewer are
\* the statuses the backend answers the token exchange and the test query with;
\* key: the file at private_key_path is a key ("ok"), is no key ("malformed")
\* or does not exist ("missing")
DefaultArgs ==
    [auth_type |-> "token", token |-> "t0", rate_limit_pause |-> 2,
     exchange |-> 201, viewer |-> 200, key |-> "ok"]

\* the settings a script can be started with
ArgsChoices(p) ==
    IF p = "scanner"
    THEN { DefaultArgs,
           [DefaultArgs EXCEPT !.token = ""],
           [DefaultArgs EXCEPT !.viewer = 401],
           [DefaultArgs EXCEPT !.auth_type = "cert"],
           [DefaultArgs EXCEPT !.auth_type = "cert", !.exchange = 401],
           [DefaultArgs EXCEPT !.auth_type = "cert", !.exchange = 200],
           [DefaultArgs EXCEPT !.auth_type = "cert", !.key = "missing"],
           [DefaultArgs EXCEPT !.auth_type = "cert", !.key = "malformed"],
           [DefaultArgs EXCEPT !.auth_type = "cert", !.rate_limit_pause = LongPause] }
    ELSE IF p = "callers"
    THEN { [DefaultArgs EXCEPT !.auth_type = "cert"],
           [DefaultArgs EXCEPT !.auth_type = "cert", !.exchange = 401],
           DefaultArgs }
    ELSE IF p \in {"find", "graphql"}
    THEN {DefaultArgs, [DefaultArgs EXCEPT !.token = ""]}
    ELSE {DefaultArgs}

\* the Authorization value built from a static token, which does not expire
StaticAuth(token) == [bearer |-> token, expires_at |-> NoSize]

\* no Authorization value has been built yet
NoAuth == [bearer |-> "", expires_at |-> NoSize]

\* no revision has been resolved yet
NoRevision == [by |-> "none", oid |-> 0]

\* the commit the expression "<rev>:<path>" is evaluated against: the commit
\* itself for an object id, the head of the branch at that moment for a name
EvaluatedAt(rev) == IF rev.by = "oid" THEN rev.oid ELSE head

\* no answer has reported a rate limit yet
NoQuota == [remaining |-> NoSize, resetAt |-> NoSize]

Init ==
    \E p \in Programs :
      \E t \in ThresholdsOf(p) :
        \E b \in Batches(p, t) :
          /\ program = p
          /\ threshold_kb = t
          /\ repos = b
          /\ max_files \in MaxFilesOf(p)
          /\ idx = 1
          /\ args \in ArgsChoices(p)
          /\ auth = IF p \in {"scanner", "callers"} THEN NoAuth
                    ELSE StaticAuth(args.token)
          /\ pc = IF p = "scanner" THEN "start"
                  ELSE IF p = "graphql" /\ args.token = "" THEN "exited"
                  ELSE "next"
          /\ stack = <<>>
          /\ contents = <<>>
          /\ frames = <<>>
          /\ large_files = <<>>
          /\ fetched = <<>>
          /\ all_large_files = <<>>
          /\ results = <<>>
          /\ errlog = <<>>
          /\ written = FALSE
          /\ report = <<>>
          /\ sent = <<>>
          /\ attempt = 0
          /\ slept = <<>>
          /\ clock = 0
          /\ quota = NoQuota
          /\ head = 1
          /\ revision = NoRevision
          /\ evaluated = <<>>

-----------------------------------------------------------------------------
(* find-large-files-graphql.py: one repository, LIFO stack of paths *)

RECURSIVE WalkTreeFiles(_, _)
WalkTreeFiles(entries, t) ==
    IF entries = <<>> THEN <<>>
    ELSE LET e == Head(entries)
         IN  (IF e.type = "blob" /\ e.size # NoSize /\ AtLeastKB(e.size, t)
              THEN <<[Path |-> e.path, Size_KB |-> Round2(e.size, BytesPerKB)]>>
              ELSE <<>>)
             \o WalkTreeFiles(Tail(entries), t)

\* a loop body that pushes no entry: the walk ends after the root
WalkTreeDirsNone(entries) == <<>>

RECURSIVE WalkTreeDirs(_)
WalkTreeDirs(entries) ==
    IF entries = <<>> THEN <<>>
    ELSE LET e == Head(entries)
         IN  (IF e.type = "tree" THEN <<e.path>> ELSE <<>>)
             \o WalkTreeDirs(Tail(entries))

\* main up to the call of walk_tree: get_default_branch_sha is not guarded
GraphqlMain ==
    /\ program = "graphql" /\ pc = "next" /\ idx = 1
    /\ IF repos[1].info = "ok"
       THEN /\ pc' = "walk"
            /\ stack' = <<Root>>
            /\ revision' = [by |-> "oid", oid |-> head]
       ELSE /\ pc' = "crashed"
            /\ UNCHANGED <<stack, revision>>
    /\ UNCHANGED <<head, evaluated, netVars, program, repos, threshold_kb, max_files, idx, contents, frames,
                   large_files, fetched, all_large_files, results, errlog, written, report>>

\* one iteration of "while stack"
WalkTreeStep ==
    /\ program = "graphql" /\ pc = "walk" /\ stack # <<>>
    /\ Len(fetched) < MaxFetch
    /\ LET current_path == Last(stack)
           got == GetTreeEntriesGraphql(repos[idx], threshold_kb, Expression(current_path))
       IN  /\ fetched' = fetched \o <<current_path>>
           /\ evaluated' = Append(evaluated, EvaluatedAt(revision))
           /\ IF got.raised
              THEN /\ pc' = "crashed"
                   /\ UNCHANGED <<stack, large_files>>
              ELSE /\ stack' = Front(stack) \o WalkTreeDirs(got.entries)
                   /\ large_files' = large_files \o WalkTreeFiles(got.entries, threshold_kb)
                   /\ UNCHANGED pc
    /\ UNCHANGED <<head, revision, netVars, program, repos, threshold_kb, max_files, idx, contents, frames,
                   all_large_files, results, errlog, written, report>>

\* walk_tree returns; main saves the report
WalkTreeReturn ==
    /\ program = "graphql" /\ pc = "walk" /\ stack = <<>>
    /\ all_large_files' = large_files
    /\ written' = TRUE
    /\ report' = SortDescBy(large_files,
                            [i \in 1..Len(large_files) |-> large_files[i].Size_KB])
    /\ idx' = idx + 1
    /\ pc' = "done"
    /\ UNCHANGED <<revVars, netVars, program, repos, threshold_kb, max_files, stack, contents, frames,
                   large_files, fetched, results, errlog>>

-----------------------------------------------------------------------------
(* find-large-files-graphql-csv6.py (csv3, csv4 alike): batch, recursive walker *)

\* the record of a qualifying blob
CsvRecord(r, e) ==
    [Repository |-> RepoName(r), Path |-> e.path,
     Size_KB |-> Round2(e.size, BytesPerKB),
     Size_MB |-> Round2(e.size, BytesPerKB * BytesPerKB)]

\* walk_tree_recursive as a function, for a repository that answers every
\* request: the records of the entries, each tree entry replaced by the
\* records of its own listing; depth bounds the nesting of the calls
RECURSIVE WalkTreeRecursive(_, _, _, _)
WalkTreeRecursive(r, t, entries, depth) ==
    IF entries = <<>> THEN <<>>
    ELSE LET e == Head(entries)
         IN  (IF e.type = "blob"
              THEN (IF e.size # NoSize /\ ExceedsKB(e.size, t)
                    THEN <<CsvRecord(r, e)>> ELSE <<>>)
              ELSE IF e.type = "tree" /\ depth > 0
              THEN WalkTreeRecursive(r, t,
                       GetTreeEntriesCsv(r, t, Expression(e.path)).entries, depth - 1)
              ELSE <<>>)
             \o WalkTreeRecursive(r, t, Tail(entries), depth)

\* one row of the input, up to the call of walk_tree_recursive
Csv6Row ==
    /\ program = "csv6" /\ pc = "next" /\ idx <= Len(repos)
    /\ LET r == repos[idx]
       IN  IF Len(r.ident) < 2
           THEN \* empty, or no "/": skipped
                /\ errlog' = Log("warning", "invalid repo")
                /\ idx' = idx + 1
                /\ UNCHANGED <<pc, frames, fetched>>
           ELSE IF Len(r.ident) # 2
           THEN \* owner, repo = split("/") raises inside the outer try: exit(1)
                /\ errlog' = Log("error", "reading input")
                /\ pc' = "crashed"
                /\ UNCHANGED <<idx, frames, fetched>>
           ELSE IF r.info # "ok"
           THEN \* the branch query raised, or None has no .get
                /\ errlog' = Log("error", "default branch")
                /\ idx' = idx + 1
                /\ UNCHANGED <<pc, frames, fetched>>
           ELSE /\ pc' = "walk"
                /\ frames' = <<[entries |-> <<RootEntry>>, large_files |-> <<>>]>>
                /\ fetched' = <<>>
                /\ UNCHANGED <<idx, errlog>>
    /\ sent' = LET r == repos[idx]
               IN  IF Len(r.ident) = 2
                   THEN \* the branch query: graphql_query posts it once
                        Append(sent, Request("graphql", <<"defaultBranchRef">>,
                                             IF r.info = "http" THEN 502 ELSE 200))
                   ELSE sent
    /\ LET walked == Len(repos[idx].ident) = 2 /\ repos[idx].info = "ok"
       IN  \* defaultBranchRef { name }: the name of the branch is what is kept
           /\ revision' = IF walked THEN [by |-> "name", oid |-> head] ELSE revision
           /\ evaluated' = IF walked THEN <<>> ELSE evaluated
    /\ UNCHANGED <<head, args, auth, attempt, slept, clock, quota, program, repos,
                   threshold_kb, max_files, stack, contents,
                   large_files, all_large_files, results, written, report>>

\* the loop body for an entry that is no tree
WalkTreeRecursiveEntry ==
    /\ program = "csv6" /\ pc = "walk" /\ frames # <<>>
    /\ Head(frames).entries # <<>>
    /\ LET top == Head(frames)
           e == Head(top.entries)
       IN  /\ e.type # "tree"
           /\ frames' = <<[entries |-> Tail(top.entries),
                           large_files |->
                               IF e.type = "blob" /\ e.size # NoSize
                                  /\ ExceedsKB(e.size, threshold_kb)
                               THEN top.large_files \o <<CsvRecord(repos[idx], e)>>
                               ELSE top.large_files]>>
                         \o Tail(frames)
    /\ UNCHANGED <<revVars, netVars, program, repos, threshold_kb, max_files, idx, pc, stack, contents,
                   large_files, fetched, all_large_files, results, errlog, written, report>>

\* the loop body for a tree entry: the recursive call and its request.
\* An exception unwinds every frame up to main's handler.
WalkTreeRecursiveCall ==
    /\ program = "csv6" /\ pc = "walk" /\ frames # <<>>
    /\ Head(frames).entries # <<>>
    /\ Len(fetched) < MaxFetch
    /\ LET top == Head(frames)
           e == Head(top.entries)
           got == GetTreeEntriesCsv(repos[idx], threshold_kb, Expression(e.path))
       IN  /\ e.type = "tree"
           /\ fetched' = fetched \o <<e.path>>
           /\ evaluated' = Append(evaluated, EvaluatedAt(revision))
           /\ sent' = Append(sent, Request("graphql", e.path,
                                  TreeQuery(repos[idx], threshold_kb,
                                            Expression(e.path)).status))
           /\ IF got.raised
              THEN /\ frames' = <<>>
                   /\ errlog' = Log("error", "scanning")
                   /\ idx' = idx + 1
                   /\ pc' = "next"
              ELSE /\ frames' = <<[entries |-> got.entries, large_files |-> <<>>],
                                  [top EXCEPT !.entries = Tail(top.entries)]>>
                                \o Tail(frames)
                   /\ UNCHANGED <<errlog, idx, pc>>
    /\ UNCHANGED <<head, revision, args, auth, attempt, slept, clock, quota, program, repos,
                   threshold_kb, max_files, stack, contents,
                   large_files, all_large_files, results, written, report>>

\* a call returns its list; the caller extends its own with it
WalkTreeRecursiveReturn ==
    /\ program = "csv6" /\ pc = "walk" /\ frames # <<>>
    /\ Head(frames).entries = <<>>
    /\ IF Len(frames) = 1
       THEN /\ all_large_files' = all_large_files \o Head(frames).large_files
            /\ frames' = <<>>
            /\ idx' = idx + 1
            /\ pc' = "next"
       ELSE /\ frames' = <<[frames[2] EXCEPT
                              !.large_files = @ \o Head(frames).large_files]>>
                         \o Tail(Tail(frames))
            /\ UNCHANGED <<all_large_files, idx, pc>>
    /\ UNCHANGED <<revVars, netVars, program, repos, threshold_kb, max_files, stack, contents,
                   large_files, fetched, results, errlog, written, report>>

-----------------------------------------------------------------------------
(* find_large_files_pygithub.py: batch, FIFO queue of content entries *)

\* repo.get_contents(path): the directory's entries as ContentFile objects;
\* a submodule entry has size 0
GetContents(r, t, path) ==
    LET resp == TreeQuery(r, t, Expression(path))
        AsContent(e) ==
            [path |-> e.path,
             type |-> CASE e.type = "tree" -> "dir"
                        [] e.type = "blob" -> "file"
                        [] OTHER -> "submodule",
             size |-> IF e.size = NoSize THEN 0 ELSE e.size]
    IN  IF resp.status # 200 \/ ~resp.repository \/ resp.object # "tree"
           \/ r.info = "nobranch"
        THEN [raised |-> TRUE, entries |-> <<>>]
        ELSE [raised |-> FALSE,
              entries |-> [i \in 1..Len(resp.entries) |-> AsContent(resp.entries[i])]]

PygithubRecord(r, c) ==
    [Repository |-> RepoName(r), Path |-> c.path,
     Size_KB |-> Round2(c.size, BytesPerKB),
     Size_MB |-> Round2(c.size, BytesPerKB * BytesPerKB)]

\* one row of the input, up to the first iteration of "while contents"
PygithubRow ==
    /\ program = "pygithub" /\ pc = "next" /\ idx <= Len(repos)
    /\ LET r == repos[idx]
           got == GetContents(r, threshold_kb, Root)
       IN  IF Len(r.ident) < 2
           THEN /\ errlog' = Log("warning", "invalid repo")
                /\ idx' = idx + 1
                /\ UNCHANGED <<pc, contents, large_files, fetched>>
           ELSE IF Len(r.ident) # 2 \/ r.info \in {"null", "http"}
           THEN \* g.get_repo raised
                /\ errlog' = Log("error", "accessing")
                /\ idx' = idx + 1
                /\ UNCHANGED <<pc, contents, large_files, fetched>>
           ELSE IF got.raised
           THEN \* caught inside scan_repo_for_large_files, which returns []
                /\ errlog' = Log("error", "scanning")
                /\ idx' = idx + 1
                /\ UNCHANGED <<pc, contents, large_files, fetched>>
           ELSE /\ pc' = "walk"
                /\ contents' = got.entries
                /\ large_files' = <<>>
                /\ fetched' = <<Root>>
                /\ UNCHANGED <<idx, errlog>>
    /\ UNCHANGED <<revVars, netVars, program, repos, threshold_kb, max_files, stack, frames,
                   all_large_files, results, written, report>>

\* one iteration of "while contents"; an exception ends the loop and the
\* function returns what it has
ScanRepoStep ==
    /\ program = "pygithub" /\ pc = "walk" /\ contents # <<>>
    /\ LET file_content == Head(contents)
           got == GetContents(repos[idx], threshold_kb, file_content.path)
       IN  IF file_content.type = "dir"
           THEN /\ Len(fetched) < MaxFetch
                /\ fetched' = fetched \o <<file_content.path>>
                /\ IF got.raised
                   THEN /\ errlog' = Log("error", "scanning")
                        /\ all_large_files' = all_large_files \o large_files
                        /\ contents' = <<>>
                        /\ idx' = idx + 1
                        /\ pc' = "next"
                        /\ UNCHANGED large_files
                   ELSE /\ contents' = Tail(contents) \o got.entries
                        /\ UNCHANGED <<errlog, all_large_files, idx, pc, large_files>>
           ELSE /\ contents' = Tail(contents)
                /\ large_files' =
                       IF ExceedsKB(file_content.size, threshold_kb)
                       THEN large_files \o <<PygithubRecord(repos[idx], file_content)>>
                       ELSE large_files
                /\ UNCHANGED <<errlog, all_large_files, idx, pc, fetched>>
    /\ UNCHANGED <<revVars, netVars, program, repos, threshold_kb, max_files, stack, frames,
                   results, written, report>>

ScanRepoReturn ==
    /\ program = "pygithub" /\ pc = "walk" /\ contents = <<>>
    /\ all_large_files' = all_large_files \o large_files
    /\ idx' = idx + 1
    /\ pc' = "next"
    /\ UNCHANGED <<revVars, netVars, program, repos, threshold_kb, max_files, stack, contents, frames,
                   large_files, fetched, results, errlog, written, report>>

-----------------------------------------------------------------------------
(* The flat-tree endpoint *)

\* the recursive listing: every entry of the tree, parents before children
RECURSIVE FlatList(_, _)
FlatList(tree, entries) ==
    IF entries = <<>> THEN <<>>
    ELSE LET e == Head(entries)
         IN  <<e>>
             \o (IF e.type = "tree" /\ e.path \in DOMAIN tree
                 THEN FlatList(tree, tree[e.path]) ELSE <<>>)
             \o FlatList(tree, Tail(entries))

\* GET .../git/trees/<rev>?recursive=1
FlatTreeResponse(r, t) ==
    LET tree == TreeOf(r.fx, t)
        full == FlatList(tree, tree[Root])
        kept == IF r.cut >= Len(full) THEN 0 ELSE Len(full) - r.cut
    IN  [status |-> r.tree_status,
         truncated |-> r.cut > 0,
         tree |-> SubSeq(full, 1, kept)]

-----------------------------------------------------------------------------
(* github-graphql-scanner.py: batch, flat tree *)

Absent == "<absent>"

\* normalize_repo_url on the "/"-separated parts of the identifier;
\* <<>> stands for None
NormalizeRepoUrl(parts) ==
    IF /\ Len(parts) >= 5
       /\ parts[1] \in {"https:", "http:"} /\ parts[2] = "" /\ parts[3] = "github.com"
    THEN <<parts[4], parts[5]>>
    ELSE IF Len(parts) = 2 THEN parts
    ELSE <<>>

\* format_file_size: "<x.xx> KB" below 1 MB, "<x.xx> MB" from 1 MB
FormatFileSize(size_bytes) ==
    IF size_bytes < BytesPerKB * BytesPerKB
    THEN [value |-> Round2(size_bytes, BytesPerKB), unit |-> "KB"]
    ELSE [value |-> Round2(size_bytes, BytesPerKB * BytesPerKB), unit |-> "MB"]

ScannerFile(name, item) ==
    [path |-> item.path, size_bytes |-> item.size,
     size_formatted |-> FormatFileSize(item.size),
     repo_path |-> name \o item.path]

\* the filter without its size comparison: every blob passes
ScannerQualifiesAnyBlob(item, t) == item.type = "blob"

\* item.get('type') == 'blob' and item.get('size', 0) > threshold_bytes
ScannerQualifies(item, t) ==
    LET size == IF item.size = NoSize THEN 0 ELSE item.size
    IN  item.type = "blob" /\ size > t * BytesPerKB

RECURSIVE ScannerFilter(_, _, _)
ScannerFilter(name, items, t) ==
    IF items = <<>> THEN <<>>
    ELSE LET item == Head(items)
         IN  (IF ScannerQualifies(item, t)
              THEN <<ScannerFile(name, item)>> ELSE <<>>)
             \o ScannerFilter(name, Tail(items), t)

\* scan_repository_for_large_files: [] on a non-200 answer; otherwise the
\* qualifying blobs of the listing, largest first, cut to max_files
ScanRepositoryForLargeFiles(r, name, t, limit) ==
    LET resp == FlatTreeResponse(r, t)
        found == ScannerFilter(name, resp.tree, t)
        sorted == SortDescBy(found, [i \in 1..Len(found) |-> found[i].size_bytes])
    IN  IF resp.status # 200 THEN <<>>
        ELSE SubSeq(sorted, 1, IF Len(sorted) < limit THEN Len(sorted) ELSE limit)

\* the warning of scan_repository_for_large_files
TruncationWarned(r, t) ==
    LET resp == FlatTreeResponse(r, t)
    IN  resp.status = 200 /\ resp.truncated

\* scan_repository: the result dict of one repository
ScanRepositoryResult(r, t, limit) ==
    LET normalized_repo == NormalizeRepoUrl(r.ident)
    IN  IF normalized_repo = <<>>
        THEN [repository_url |-> r.ident, status |-> "error",
              error |-> "Invalid repository format",
              large_files_count |-> NoSize, large_files |-> <<>>]
        ELSE IF r.info = "http"
        THEN [repository_url |-> r.ident, status |-> "error",
              error |-> "GraphQL query failed",
              large_files_count |-> NoSize, large_files |-> <<>>]
        ELSE IF r.info = "null"
        THEN [repository_url |-> r.ident, status |-> "error",
              error |-> "Repository not found or no access",
              large_files_count |-> NoSize, large_files |-> <<>>]
        ELSE IF r.info = "nobranch"
        THEN [repository_url |-> r.ident, status |-> "success", error |-> Absent,
              large_files_count |-> NoSize, large_files |-> <<>>]
        ELSE LET files == ScanRepositoryForLargeFiles(r, normalized_repo, t, limit)
             IN  [repository_url |-> r.ident, status |-> "success", error |-> Absent,
                  large_files_count |-> Len(files), large_files |-> files]

\* get_installation_token: the exchange request, and the token of a 201 answer
\* with the expiry the backend gives it
GetInstallationToken(a) ==
    [request |-> [Request("access_tokens", <<"installation">>, a.exchange)
                     EXCEPT !.bearer = "jwt"],
     raised |-> a.exchange # 201,
     auth |-> [bearer |-> "installation-token", expires_at |-> clock + TokenLifetime]]

\* create_auth_headers
CreateAuthHeaders(a) ==
    IF a.auth_type = "token"
    THEN [requests |-> <<>>, raised |-> a.token = "", auth |-> StaticAuth(a.token)]
    ELSE IF a.key # "ok"
    THEN [requests |-> <<>>, raised |-> TRUE, auth |-> NoAuth]
    ELSE LET got == GetInstallationToken(a)
         IN  [requests |-> <<got.request>>, raised |-> got.raised, auth |-> got.auth]

\* create_auth_headers called by several callers at once ("callers"): the
\* function keeps nothing between calls, so a call is one step whatever the
\* other callers do; results holds what each caller got back
CallerCreateAuthHeaders ==
    /\ program = "callers" /\ pc = "next"
    /\ \E c \in 1..NumCallers :
          /\ \A k \in 1..Len(results) : results[k].caller # c
          /\ LET made == CreateAuthHeaders(args)
             IN  /\ sent' = sent \o made.requests
                 /\ results' = Append(results,
                        [caller |-> c, raised |-> made.raised,
                         bearer |-> IF made.raised THEN "" ELSE made.auth.bearer,
                         exchange |-> Len(sent) + Len(made.requests)])
    /\ UNCHANGED <<revVars, args, auth, attempt, slept, clock, quota, program, repos,
                   threshold_kb, max_files, idx, pc, stack, contents, frames,
                   large_files, fetched, all_large_files, errlog, written, report>>

\* main up to its loop: the headers, then the test query
ScannerStartup ==
    /\ program = "scanner" /\ pc = "start"
    /\ LET made == CreateAuthHeaders(args)
           test == [Request("graphql", <<"viewer">>, args.viewer)
                       EXCEPT !.bearer = made.auth.bearer,
                              !.remaining = GoodRepo.remaining,
                              !.resetAt = clock + GoodRepo.reset_in]
       IN  IF made.raised
           THEN /\ sent' = sent \o made.requests
                /\ errlog' = Log("error", "Authentication failed")
                /\ pc' = "exited"
                /\ UNCHANGED <<auth, quota>>
           ELSE /\ sent' = sent \o made.requests \o <<test>>
                /\ auth' = made.auth
                /\ IF args.viewer = 200
                   THEN /\ quota' = [remaining |-> test.remaining, resetAt |-> test.resetAt]
                        /\ pc' = "next"
                        /\ UNCHANGED errlog
                   ELSE /\ errlog' = Log("error", "Failed to connect")
                        /\ pc' = "exited"
                        /\ UNCHANGED quota
    /\ UNCHANGED <<revVars, args, attempt, slept, clock, program, repos, threshold_kb, max_files,
                   idx, stack, contents, frames, large_files, fetched, all_large_files,
                   results, written, report>>

\* the requests scan_repository issues for a row: the repository query, and
\* the tree request right after its answer
ScannerRequests(r) ==
    IF NormalizeRepoUrl(r.ident) = <<>> THEN <<>>
    ELSE <<IF r.info = "http"
           THEN Request("graphql", <<"repository">>, 502)
           ELSE [Request("graphql", <<"repository">>, 200)
                    EXCEPT !.remaining = r.remaining, !.resetAt = clock + r.reset_in]>>
         \o (IF r.info = "ok"
             THEN <<Request("tree", <<"recursive">>, r.tree_status)>>
             ELSE <<>>)

\* the seconds scan_repository sleeps: rate_limit_pause after a listed tree,
\* and once more before it returns its data
ScannerSlept(r, pause) ==
    IF NormalizeRepoUrl(r.ident) = <<>> \/ r.info \in {"http", "null"} THEN 0
    ELSE (IF r.info = "ok" /\ r.tree_status = 200 THEN pause ELSE 0) + pause

\* one iteration of main's loop: scan_repository and results.append
ScannerScanRepository ==
    /\ program = "scanner" /\ pc = "next" /\ idx <= Len(repos)
    /\ sent' = sent \o ScannerRequests(repos[idx])
    /\ clock' = clock + ScannerSlept(repos[idx], args.rate_limit_pause)
    /\ quota' = IF NormalizeRepoUrl(repos[idx].ident) # <<>> /\ repos[idx].info # "http"
                THEN [remaining |-> repos[idx].remaining,
                      resetAt |-> clock + repos[idx].reset_in]
                ELSE quota
    /\ LET r == repos[idx]
           result == ScanRepositoryResult(r, threshold_kb, max_files)
           graphql_errors ==
               IF NormalizeRepoUrl(r.ident) # <<>> /\ r.info # "http" /\ r.errors
               THEN <<[i |-> idx, level |-> "error", what |-> "GraphQL errors"]>>
               ELSE <<>>
       IN  /\ results' = Append(results, result)
           /\ errlog' =
                 IF result.status = "error"
                 THEN errlog \o graphql_errors
                      \o <<[i |-> idx, level |-> "error", what |-> result.error]>>
                 ELSE IF r.info = "ok" /\ FlatTreeResponse(r, threshold_kb).status # 200
                 THEN errlog \o graphql_errors
                      \o <<[i |-> idx, level |-> "error", what |-> "repository tree"]>>
                 ELSE IF r.info = "ok" /\ TruncationWarned(r, threshold_kb)
                 THEN errlog \o graphql_errors
                      \o <<[i |-> idx, level |-> "warning", what |-> "truncated"]>>
                 ELSE errlog \o graphql_errors
    /\ idx' = idx + 1
    /\ UNCHANGED <<revVars, args, auth, attempt, slept, program, repos, threshold_kb, max_files,
                   pc, stack, contents, frames,
                   large_files, fetched, all_large_files, written, report>>

\* write_results after the loop
ScannerWriteResults ==
    /\ program = "scanner" /\ pc = "next" /\ idx > Len(repos)
    /\ written' = (results # <<>>)
    /\ report' = results
    /\ pc' = "done"
    /\ UNCHANGED <<revVars, netVars, program, repos, threshold_kb, max_files, idx, stack, contents, frames,
                   large_files, fetched, all_large_files, results, errlog>>

-----------------------------------------------------------------------------
(* find-large-files-rest.py: one repository, flat tree *)

RECURSIVE RestFilter(_, _)
RestFilter(items, t) ==
    IF items = <<>> THEN <<>>
    ELSE LET item == Head(items)
         IN  (IF item.type = "blob" /\ AtLeastKB(item.size, t)
              THEN <<[Path |-> item.path, Size_KB |-> Round2(item.size, BytesPerKB)]>>
              ELSE <<>>)
             \o RestFilter(Tail(items), t)

\* find_large_files: no request is guarded (raise_for_status ends the script)
RestFindLargeFiles ==
    /\ program = "rest" /\ pc = "next" /\ idx = 1
    /\ LET r == repos[1]
           resp == FlatTreeResponse(r, threshold_kb)
           found == RestFilter(resp.tree, threshold_kb)
       IN  IF r.info # "ok" \/ resp.status # 200
           THEN /\ pc' = "crashed"
                /\ UNCHANGED <<idx, all_large_files, written, report>>
           ELSE /\ all_large_files' = found
                /\ report' = SortDescBy(found, [i \in 1..Len(found) |-> found[i].Size_KB])
                /\ written' = TRUE
                /\ idx' = idx + 1
                /\ pc' = "done"
    /\ UNCHANGED <<revVars, netVars, program, repos, threshold_kb, max_files, stack, contents, frames,
                   large_files, fetched, results, errlog>>

-----------------------------------------------------------------------------
(* The single nested query of csv7 and scan_repos1 *)

\* the entries the query selects: QueryLevels levels of the tree, each tree
\* entry of a level but the last carrying its own entries
RECURSIVE NestedEntries(_, _, _)
NestedEntries(tree, entries, levels) ==
    [i \in 1..Len(entries) |->
        LET e == entries[i]
            inner == e.type = "tree" /\ levels > 1 /\ e.path \in DOMAIN tree
        IN  [name |-> e.name, path |-> e.path, type |-> e.type, size |-> e.size,
             has_entries |-> inner,
             entries |-> IF inner THEN NestedEntries(tree, tree[e.path], levels - 1)
                         ELSE <<>>]]

NestedTree(r, t) == NestedEntries(TreeOf(r.fx, t), TreeOf(r.fx, t)[Root], QueryLevels)

-----------------------------------------------------------------------------
(* find-large-files-graphql-csv7.py: batch, one nested query per repository *)

\* process_entries: the path is built from the names
RECURSIVE ProcessEntries(_, _, _, _)
ProcessEntries(entries, repo_name, path, t) ==
    IF entries = <<>> THEN <<>>
    ELSE LET entry == Head(entries)
             current_path == path \o <<entry.name>>
         IN  (IF entry.type = "blob" /\ entry.size # NoSize /\ ExceedsKB(entry.size, t)
              THEN <<[repository |-> repo_name, file_path |-> current_path,
                      size_kb |-> Round2(entry.size, BytesPerKB),
                      size_mb |-> Round2(entry.size, BytesPerKB * BytesPerKB)]>>
              ELSE <<>>)
             \o (IF entry.has_entries /\ entry.entries # <<>>
                 THEN ProcessEntries(entry.entries, repo_name, current_path, t)
                 ELSE <<>>)
             \o ProcessEntries(Tail(entries), repo_name, path, t)

\* GitHubRepoScanner.scan_repository: [] for every failure
Csv7ScanRepositoryFailed(r) == Len(r.ident) # 2 \/ r.info # "ok" \/ r.errors

Csv7ScanRepositoryFiles(r, t) ==
    IF Csv7ScanRepositoryFailed(r) THEN <<>>
    ELSE ProcessEntries(NestedTree(r, t), r.ident, <<>>, t)

\* one iteration of the loop of scan_repositories
Csv7ScanRepository ==
    /\ program = "csv7" /\ pc = "next" /\ idx <= Len(repos)
    /\ LET r == repos[idx]
           found == Csv7ScanRepositoryFiles(r, threshold_kb)
       IN  /\ all_large_files' = all_large_files \o found
           /\ errlog' = IF Csv7ScanRepositoryFailed(r)
                        THEN Log("print", "error scanning")
                             \o (IF Len(r.ident) = 2 /\ r.info # "http" /\ r.errors
                                 THEN <<[i |-> idx, level |-> "print",
                                         what |-> "GraphQL errors"]>>
                                 ELSE <<>>)
                        ELSE errlog
    /\ idx' = idx + 1
    /\ UNCHANGED <<revVars, netVars, program, repos, threshold_kb, max_files, pc, stack, contents, frames,
                   large_files, fetched, results, written, report>>

\* the rank of a repository name in string order
NameRank(name) == IF name = <<"zeta", "app">> THEN 2 ELSE 1

\* after the loop: sort by repository ascending, size_kb descending, and write
Csv7WriteReport ==
    /\ program = "csv7" /\ pc = "next" /\ idx > Len(repos)
    /\ written' = (all_large_files # <<>>)
    /\ report' =
          LET by_size == SortDescBy(all_large_files,
                             [i \in 1..Len(all_large_files) |-> all_large_files[i].size_kb])
          IN  SortDescBy(by_size,
                  [i \in 1..Len(by_size) |-> 0 - NameRank(by_size[i].repository)])
    /\ pc' = "done"
    /\ UNCHANGED <<revVars, netVars, program, repos, threshold_kb, max_files, idx, stack, contents, frames,
                   large_files, fetched, all_large_files, results, errlog>>

-----------------------------------------------------------------------------
(* scan_repos1.py: batch of URLs, one nested query per repository *)

\* format_size: the first unit in which the size is below 1024
FormatSize(size_in_bytes) ==
    IF size_in_bytes < BytesPerKB
    THEN [value |-> size_in_bytes * 100, unit |-> "B"]
    ELSE IF size_in_bytes < BytesPerKB * BytesPerKB
    THEN [value |-> Round2(size_in_bytes, BytesPerKB), unit |-> "KB"]
    ELSE IF size_in_bytes < BytesPerKB * BytesPerKB * BytesPerKB
    THEN [value |-> Round2(size_in_bytes, BytesPerKB * BytesPerKB), unit |-> "MB"]
    ELSE [value |-> Round2(size_in_bytes, BytesPerKB * BytesPerKB * BytesPerKB),
          unit |-> "GB"]

\* find_large_files raises on a blob entry whose object is null:
\* entry.get('object', {}) is None, which has no .get
RECURSIVE FindLargeFilesRaises(_)
FindLargeFilesRaises(entries) ==
    \E k \in 1..Len(entries) :
        \/ entries[k].type = "blob" /\ entries[k].size = NoSize
        \/ /\ entries[k].type = "tree" /\ entries[k].has_entries
           /\ FindLargeFilesRaises(entries[k].entries)

\* find_large_files: the prefix is put before the entry's own path
RECURSIVE FindLargeFiles(_, _, _)
FindLargeFiles(entries, t, path_prefix) ==
    IF entries = <<>> THEN <<>>
    ELSE LET entry == Head(entries)
             size_bytes == IF entry.size = NoSize THEN 0 ELSE entry.size
         IN  (IF entry.type = "blob"
              THEN (IF size_bytes > t * BytesPerKB
                    THEN <<[path |-> path_prefix \o entry.path, size |-> size_bytes]>>
                    ELSE <<>>)
              ELSE IF entry.type = "tree" /\ entry.has_entries
              THEN FindLargeFiles(entry.entries, t, path_prefix \o entry.path)
              ELSE <<>>)
             \o FindLargeFiles(Tail(entries), t, path_prefix)

\* scan_repository: the result dict of one repository
ScanRepos1Result(r, t) ==
    IF Len(r.ident) # 5 \/ r.info # "ok" \/ FindLargeFilesRaises(NestedTree(r, t))
    THEN [repository_url |-> r.ident, error |-> "exception", large_files |-> <<>>]
    ELSE LET found == FindLargeFiles(NestedTree(r, t), t, <<>>)
         IN  [repository_url |-> r.ident, error |-> Absent,
              large_files |->
                  [i \in 1..Len(found) |->
                      [path |-> <<r.ident[5]>> \o found[i].path,
                       size |-> FormatSize(found[i].size)]]]

\* one iteration of main's loop
ScanRepos1ScanRepository ==
    /\ program = "scan_repos1" /\ pc = "next" /\ idx <= Len(repos)
    /\ results' = Append(results, ScanRepos1Result(repos[idx], threshold_kb))
    /\ idx' = idx + 1
    /\ UNCHANGED <<revVars, netVars, program, repos, threshold_kb, max_files, pc, stack, contents, frames,
                   large_files, fetched, all_large_files, errlog, written, report>>

\* the rows are written after the loop
ScanRepos1WriteResults ==
    /\ program = "scan_repos1" /\ pc = "next" /\ idx > Len(repos)
    /\ written' = TRUE
    /\ report' = results
    /\ pc' = "done"
    /\ UNCHANGED <<revVars, netVars, program, repos, threshold_kb, max_files, idx, stack, contents, frames,
                   large_files, fetched, all_large_files, results, errlog>>

-----------------------------------------------------------------------------
(* find-large-files-graphql-csv.py: batch *)

\* one row of the input: main reads "result" before any assignment to it, so
\* the first row that passes the format check ends the script
CsvRow ==
    /\ program = "csv" /\ pc = "next" /\ idx <= Len(repos)
    /\ IF Len(repos[idx].ident) < 2
       THEN /\ errlog' = Log("print", "invalid repo")
            /\ idx' = idx + 1
            /\ UNCHANGED pc
       ELSE /\ pc' = "crashed"
            /\ UNCHANGED <<idx, errlog>>
    /\ UNCHANGED <<revVars, netVars, program, repos, threshold_kb, max_files, stack, contents, frames,
                   large_files, fetched, all_large_files, results, written, report>>

-----------------------------------------------------------------------------
(* find-large-files.py: one repository, LIFO stack, run_query with retries *)

\* the status of the n-th answer to a run of find-large-files.py
AnswerStatus(r, n) ==
    IF r.info = "http" THEN 502
    ELSE IF n <= Len(r.flaky) THEN r.flaky[n]
    ELSE 200

\* the root expression is the revision alone: it names a commit, on which the
\* "... on Tree" selection is empty
FindExpression(path) == [colon |-> path # Root, path |-> path]

RECURSIVE FindFiles(_, _)
FindFiles(entries, t) ==
    IF entries = <<>> THEN <<>>
    ELSE LET e == Head(entries)
         IN  (IF e.type = "blob" /\ e.size # NoSize /\ ExceedsKB(e.size, t)
              THEN <<[Path |-> e.path, Size_KB |-> Round2(e.size, BytesPerKB)]>>
              ELSE <<>>)
             \o FindFiles(Tail(entries), t)

\* one iteration of the loop of run_query, and on a 200 answer what the caller
\* (get_default_branch_sha, or get_tree_entries in walk_tree_recursively) does
\* with it
FindRunQuery ==
    /\ program = "find" /\ pc \in {"next", "walk"} /\ idx = 1
    /\ pc = "walk" => stack # <<>>
    /\ attempt < Retries
    /\ LET r == repos[1]
           status == AnswerStatus(r, Len(sent) + 1)
           what == IF pc = "next" THEN <<"defaultBranchRef">> ELSE Last(stack)
           resp == TreeQuery(r, threshold_kb, FindExpression(what))
       IN  /\ sent' = Append(sent, Request("graphql", what, status))
           /\ IF status = 200
              THEN /\ attempt' = 0
                   /\ slept' = <<>>
                   /\ UNCHANGED clock
                   /\ IF pc = "next"
                      THEN /\ pc' = IF r.info = "ok" THEN "walk" ELSE "crashed"
                           /\ stack' = IF r.info = "ok" THEN <<Root>> ELSE stack
                           /\ UNCHANGED <<large_files, fetched>>
                      ELSE /\ fetched' = fetched \o <<what>>
                           /\ stack' = Front(stack) \o WalkTreeDirs(resp.entries)
                           /\ large_files' =
                                  large_files \o FindFiles(resp.entries, threshold_kb)
                           /\ UNCHANGED pc
              ELSE /\ attempt' = attempt + 1
                   /\ slept' = Append(slept, RetrySleep)
                   /\ clock' = clock + RetrySleep
                   /\ pc' = IF attempt + 1 = Retries THEN "crashed" ELSE pc
                   /\ UNCHANGED <<stack, large_files, fetched>>
    /\ UNCHANGED <<revVars, args, auth, quota, program, repos, threshold_kb, max_files, idx,
                   contents, frames, all_large_files, results, errlog, written, report>>

\* walk_tree_recursively returns; main saves the report
FindReturn ==
    /\ program = "find" /\ pc = "walk" /\ stack = <<>>
    /\ all_large_files' = large_files
    /\ written' = TRUE
    /\ report' = SortDescBy(large_files,
                            [i \in 1..Len(large_files) |-> large_files[i].Size_KB])
    /\ idx' = idx + 1
    /\ pc' = "done"
    /\ UNCHANGED <<revVars, netVars, program, repos, threshold_kb, max_files, stack, contents,
                   frames, large_files, fetched, results, errlog>>

-----------------------------------------------------------------------------
(* The end of a batch *)

\* get_tree_entries called on its own ("get_tree_entries"): one call of the
\* function of a csv script or of find-large-files-graphql.py for a path;
\* results holds the answer's content and what the call gave back
GetTreeEntriesCall ==
    /\ program = "get_tree_entries" /\ pc = "next"
    /\ \E script \in {"csv", "graphql"}, path \in ExpressionPaths :
          LET resp == TreeQuery(repos[1], threshold_kb, Expression(path))
              got == IF script = "csv"
                     THEN GetTreeEntriesCsv(repos[1], threshold_kb, Expression(path))
                     ELSE GetTreeEntriesGraphql(repos[1], threshold_kb, Expression(path))
          IN  results' = <<[script |-> script, path |-> path, status |-> resp.status,
                            repository |-> resp.repository, object |-> resp.object,
                            raised |-> got.raised, entries |-> got.entries]>>
    /\ pc' = "done"
    /\ UNCHANGED <<revVars, netVars, program, repos, threshold_kb, max_files, idx, stack,
                   contents, frames, large_files, fetched, all_large_files, errlog,
                   written, report>>

\* the backend while a walk is in progress: a push moves the head of the
\* default branch to a new commit
PushToDefaultBranch ==
    /\ program \in {"graphql", "csv6"} /\ pc = "walk"
    /\ head < MaxHead
    /\ head' = head + 1
    /\ UNCHANGED <<revision, evaluated, netVars, program, repos, threshold_kb, max_files,
                   idx, pc, stack, contents, frames, large_files, fetched,
                   all_large_files, results, errlog, written, report>>

\* after the last row the report is written when there is a record
WriteReport ==
    /\ program \in {"csv", "csv6", "pygithub"} /\ pc = "next" /\ idx > Len(repos)
    /\ written' = (all_large_files # <<>>)
    /\ report' = all_large_files
    /\ pc' = "done"
    /\ UNCHANGED <<revVars, netVars, program, repos, threshold_kb, max_files, idx, stack, contents, frames,
                   large_files, fetched, all_large_files, results, errlog>>

Next ==
    \/ GraphqlMain
    \/ WalkTreeStep
    \/ WalkTreeReturn
    \/ Csv6Row
    \/ WalkTreeRecursiveEntry
    \/ WalkTreeRecursiveCall
    \/ WalkTreeRecursiveReturn
    \/ PygithubRow
    \/ ScanRepoStep
    \/ ScanRepoReturn
    \/ CallerCreateAuthHeaders
    \/ ScannerStartup
    \/ ScannerScanRepository
    \/ ScannerWriteResults
    \/ RestFindLargeFiles
    \/ Csv7ScanRepository
    \/ Csv7WriteReport
    \/ ScanRepos1ScanRepository
    \/ ScanRepos1WriteResults
    \/ CsvRow
    \/ FindRunQuery
    \/ FindReturn
    \/ GetTreeEntriesCall
    \/ PushToDefaultBranch
    \/ WriteReport

Spec == Init /\ [][Next]_vars

\* the steps of the per-directory walkers and of the report after them
WalkerNext ==
    \/ WalkTreeStep
    \/ WalkTreeReturn
    \/ WalkTreeRecursiveEntry
    \/ WalkTreeRecursiveCall
    \/ WalkTreeRecursiveReturn
    \/ WriteReport

\* a script is one sequential process: a walker that has a next step takes it
FairSpec == Spec /\ WF_vars(WalkerNext)

-----------------------------------------------------------------------------
(* Vocabulary of the properties *)

\* the entries of a repository tree, at every depth
AllEntries(tree) == UNION {Range(tree[d]) : d \in DOMAIN tree}

\* the blobs whose size exceeds t KB
QualifyingBlobs(tree, t) ==
    {e \in AllEntries(tree) : e.type = "blob" /\ e.size > t * BytesPerKB}

\* the row's repository answers every request, with a complete flat listing
Healthy(r) ==
    r.info = "ok" /\ r.tree_status = 200 /\ r.fail = {} /\ r.cut = 0 /\ ~r.errors

\* the row's identifier is one the running script accepts
Accepted(r) ==
    CASE program = "scanner" -> NormalizeRepoUrl(r.ident) # <<>>
      [] program = "scan_repos1" -> Len(r.ident) = 5
      [] OTHER -> Len(r.ident) = 2

\* the rows the batch loop has finished
Finished == {i \in 1..Len(repos) : i < idx}

-----------------------------------------------------------------------------
(* Properties *)

\* C1 (completeness): the result of a finished scan of a healthy repository
\* has a record for every blob above the threshold, whatever its depth and
\* however many such blobs there are.
C1_Completeness ==
    \A i \in Finished :
        LET r == repos[i]
            wanted == QualifyingBlobs(TreeOf(r.fx, threshold_kb), threshold_kb)
        IN  (Healthy(r) /\ Accepted(r)) =>
              /\ program = "csv7" =>
                    \A e \in wanted : \E f \in Range(all_large_files) :
                        f.repository = r.ident /\ f.file_path = e.path
              /\ program = "scan_repos1" =>
                    \A e \in wanted : \E f \in Range(results[i].large_files) :
                        Last(f.path) = e.name
              /\ program = "scanner" =>
                    \A e \in wanted : \E f \in Range(results[i].large_files) :
                        f.path = e.path

\* C2 (strict threshold): in the report of a finished single-repository scan
\* a blob is listed if and only if its size in bytes exceeds t * 1024; a blob
\* of exactly t * 1024 bytes is not listed.
C2_StrictThreshold ==
    (/\ program \in {"graphql", "rest", "csv6"} /\ pc = "done"
     /\ Len(repos) = 1 /\ Healthy(repos[1]) /\ Accepted(repos[1])) =>
        \A e \in AllEntries(TreeOf(repos[1].fx, threshold_kb)) :
            e.type = "blob" =>
                ((\E f \in Range(report) : f.Path = e.path)
                    <=> e.size > threshold_kb * BytesPerKB)

\* C3 (end-to-end example): the scan of {a.txt: 500KB, b/c.bin: 2048KB,
\* b/d.txt: 10KB} yields exactly one record, path b/c.bin, 2048.00 KB.
C3_EndToEndExample ==
    (/\ pc = "done" /\ Len(repos) = 1
     /\ repos[1].fx = "example" /\ Healthy(repos[1]) /\ Accepted(repos[1])) =>
        /\ program = "csv6" =>
              /\ Len(report) = 1
              /\ report[1].Path = <<"b", "c.bin">>
              /\ report[1].Size_KB = 204800
        /\ program = "scan_repos1" =>
              /\ Len(report) = 1 /\ Len(report[1].large_files) = 1
              /\ report[1].large_files[1].path = <<"b", "c.bin">>
              /\ report[1].large_files[1].size = [value |-> 204800, unit |-> "KB"]

\* C4 (duplicate-path guard): a traversal expands each distinct path at most
\* once and holds no two records with the same path, also when a directory
\* lists a path that was already expanded.
C4_DuplicatePathGuard ==
    program \in WalkPrograms =>
        /\ NoDuplicates(fetched)
        /\ program = "graphql" =>
              NoDuplicates([i \in 1..Len(large_files) |-> large_files[i].Path])
        /\ program = "pygithub" =>
              NoDuplicates([i \in 1..Len(large_files) |-> large_files[i].Path])

\* a directory path that is neither d nor below d
Outside(path, d) == ~(Len(d) <= Len(path) /\ SubSeq(path, 1, Len(d)) = d)

\* the traversal of row i has ended and the walker's state is still that of row i
TraversalEnded(i) ==
    /\ Len(repos[i].ident) = 2 /\ repos[i].info = "ok"
    /\ \/ program = "graphql" /\ i = 1 /\ pc \in {"done", "crashed"}
       \/ program \in {"csv6", "pygithub"} /\ pc = "next" /\ idx = i + 1

\* C5 (subtree failure isolation): when the expansion of one directory of a
\* finite tree fails, the scan is not aborted and every directory outside
\* the failing one is still expanded.
C5_SubtreeFailureIsolation ==
    \A i \in 1..Len(repos) :
        LET r == repos[i]
        IN  (/\ TraversalEnded(i) /\ r.fx # "cycle"
             /\ \E d \in r.fail : d \in Range(fetched)) =>
              /\ pc # "crashed"
              /\ \A d \in r.fail : \A other \in Dirs(r.fx, threshold_kb) :
                    Outside(other, d) => other \in Range(fetched)

\* C6 (batch continuation): no row of the input stops the batch; the loop
\* goes on to the rows after it.
C6_BatchContinuation ==
    program \in {"csv", "csv6", "scanner"} => pc # "crashed"

\* C7 (truncation fallback): when the flat listing is truncated, the result
\* still has every qualifying file of the tree.
C7_TruncationFallback ==
    /\ program = "scanner" =>
          \A i \in Finished :
              LET r == repos[i]
                  wanted == QualifyingBlobs(TreeOf(r.fx, threshold_kb), threshold_kb)
              IN  (/\ r.info = "ok" /\ Accepted(r) /\ r.tree_status = 200 /\ r.cut > 0
                   /\ Cardinality(wanted) <= max_files) =>
                    \A e \in wanted : \E f \in Range(results[i].large_files) :
                        f.path = e.path
    /\ (program = "rest" /\ pc = "done" /\ repos[1].cut > 0) =>
          \A e \in QualifyingBlobs(TreeOf(repos[1].fx, threshold_kb), threshold_kb) :
              \E f \in Range(report) : f.Path = e.path

\* the paths the per-directory recursive walk records for the row's tree
WalkedPaths(r) ==
    {f.Path : f \in Range(WalkTreeRecursive(r, threshold_kb, <<RootEntry>>, MaxFetch))}

\* C8 (strategy equivalence): the flat-tree scan of a repository records the
\* same set of paths as the per-directory walk of the same tree with the
\* same threshold.
C8_StrategyEquivalence ==
    /\ program = "scanner" =>
          \A i \in Finished :
              LET r == repos[i]
              IN  (r.info = "ok" /\ Accepted(r) /\ r.tree_status = 200) =>
                    {f.path : f \in Range(results[i].large_files)} = WalkedPaths(r)
    /\ (program = "rest" /\ pc = "done") =>
          {f.Path : f \in Range(report)} = WalkedPaths(repos[1])

\* the row is scanned without a failure and no blob of its tree exceeds the threshold
ScannedClean(r) ==
    /\ r.info = "ok" /\ Accepted(r) /\ r.tree_status = 200 /\ ~r.errors
    /\ QualifyingBlobs(TreeOf(r.fx, threshold_kb), threshold_kb) = {}

\* C9 (empty is success): a repository scanned without a failure that has no
\* blob above the threshold gets an empty record list and no error.
C9_EmptyIsSuccess ==
    \A i \in Finished :
        ScannedClean(repos[i]) =>
          /\ program = "scanner" =>
                /\ results[i].status = "success"
                /\ results[i].error = Absent
                /\ results[i].large_files = <<>>
                /\ results[i].large_files_count = 0
          /\ program = "csv7" =>
                /\ Csv7ScanRepositoryFiles(repos[i], threshold_kb) = <<>>
                /\ \A k \in 1..Len(errlog) : errlog[k].i # i

\* C9, its case: the scanner has appended the result of such a repository
C9_Witness ==
    /\ program = "scanner" /\ pc = "done"
    /\ \E i \in 1..Len(results) :
          /\ ScannedClean(repos[i])
          /\ results[i].status = "success"
          /\ results[i].large_files = <<>>

\* C10 (fatal errors are recorded): a repository that cannot be scanned
\* (rejected identifier, not found, failed query, non-200 tree answer) gets a
\* result with status error and an error text.
C10_FatalErrorsRecorded ==
    program = "scanner" =>
        \A i \in Finished :
            LET r == repos[i]
            IN  (~Accepted(r) \/ r.info \in {"null", "http"} \/ r.tree_status # 200) =>
                  /\ results[i].status = "error"
                  /\ results[i].error # Absent

-----------------------------------------------------------------------------
(* Properties of the transport *)

\* two requests are attempts of the same call
SameCall(a, b) == a.to = b.to /\ a.repo = b.repo /\ a.what = b.what

\* a 4xx status that is no rate-limit signal
ClientError(status) == status \in 400..499 /\ status # 429

\* a 5xx status
Transient(status) == status \in 500..599

\* C11 (no retry on client errors): a call answered with a 4xx status such
\* as 401, 403 or 404 is issued once; no later request belongs to the same call.
C11_NoRetryOnClientError ==
    \A i, j \in 1..Len(sent) :
        (i < j /\ ClientError(sent[i].status)) => ~SameCall(sent[i], sent[j])

\* the number of requests issued for the call of sent[i]
Attempts(i) == Cardinality({j \in 1..Len(sent) : SameCall(sent[i], sent[j])})

\* C12 (transient retry): at the end of a run every call answered with a 5xx
\* status was either tried again or had used up a cap of 3 to 5 attempts, and
\* the delays slept between the attempts of a call grow from one to the next.
C12_TransientRetry ==
    /\ \A k \in 2..Len(slept) : slept[k] > slept[k - 1]
    /\ pc \in {"done", "crashed"} =>
          \A i \in 1..Len(sent) :
              Transient(sent[i].status) =>
                  \/ \E j \in (i + 1)..Len(sent) : SameCall(sent[i], sent[j])
                  \/ Attempts(i) \in 3..5

\* C13 (rate-limit backoff): after an answer that reports remaining = 0 and
\* resetAt = T no request is issued before T.
C13_RateLimitBackoff ==
    \A i, j \in 1..Len(sent) :
        (i < j /\ sent[i].status = 200 /\ sent[i].remaining = 0) =>
            sent[j].at >= sent[i].resetAt

\* the token-exchange requests issued so far
Exchanges == {i \in 1..Len(sent) : sent[i].to = "access_tokens"}

\* C14 (auth coalescing): however many callers ask for a credential at once,
\* one token-exchange request is made and every caller gets its token.
C14_AuthCoalescing ==
    program = "callers" =>
        /\ Cardinality(Exchanges) <= 1
        /\ \A k, l \in 1..Len(results) : results[k].exchange = results[l].exchange

\* C15 (credential freshness): with certificate authentication every request
\* of the run is issued before the installation token it carries expires.
C15_CredentialFreshness ==
    (program = "scanner" /\ args.auth_type = "cert") =>
        \A i \in 1..Len(sent) :
            sent[i].to \in {"graphql", "tree"} => sent[i].at < auth.expires_at

\* C20 (token authentication): no request carries an empty bearer value, and
\* a run given an empty static token ends before its first request.
C20_TokenAuthentication ==
    /\ \A i \in 1..Len(sent) : sent[i].bearer # ""
    /\ (args.auth_type = "token" /\ args.token = ""
        /\ program \in {"scanner", "find", "graphql"}) => sent = <<>>

-----------------------------------------------------------------------------
(* Properties of the answers' content *)

\* the row's 200 answers carry an errors array next to the whole data: the
\* repository is otherwise healthy and its identifier accepted
PartialAnswer(r) ==
    /\ r.errors /\ r.info = "ok" /\ r.tree_status = 200 /\ r.fail = {} /\ r.cut = 0
    /\ Accepted(r)

\* an entry of the log says that the answers of row i carried errors
ErrorsSurfaced(i) ==
    \E k \in 1..Len(errlog) : errlog[k].i = i /\ errlog[k].what = "GraphQL errors"

\* C16 (partial data is processed): when the 200 answers of a repository
\* carry an errors array next to their data, the errors are surfaced and
\* every qualifying blob of the data still gets its record.
C16_PartialDataProcessed ==
    \A i \in Finished :
        LET r == repos[i]
            wanted == QualifyingBlobs(TreeOf(r.fx, threshold_kb), threshold_kb)
        IN  PartialAnswer(r) =>
              /\ program = "scanner" =>
                    /\ ErrorsSurfaced(i)
                    /\ \A e \in wanted : \E f \in Range(results[i].large_files) :
                          f.path = e.path
              /\ program = "csv7" =>
                    /\ ErrorsSurfaced(i)
                    /\ \A e \in wanted : \E f \in Range(all_large_files) :
                          f.repository = r.ident /\ f.file_path = e.path
              /\ program = "csv6" =>
                    /\ ErrorsSurfaced(i)
                    /\ \A e \in wanted : \E f \in Range(all_large_files) :
                          f.Path = e.path

-----------------------------------------------------------------------------
(* Properties of the report's order and numbers *)

\* the names of the trees' entries, in string order
NamesInOrder ==
    <<"a.txt", "b", "c.bin", "d", "d.txt", "e", "eq.bin", "f.bin", "g.bin", "h.bin",
      "hi.bin", "k.bin", "lo.bin", "m.bin", "n.bin", "sub", "z.bin">>

NameIndex(name) == CHOOSE i \in 1..Len(NamesInOrder) : NamesInOrder[i] = name

\* path p sorts before path q, name by name
RECURSIVE PathBefore(_, _)
PathBefore(p, q) ==
    IF q = <<>> THEN FALSE
    ELSE IF p = <<>> THEN TRUE
    ELSE IF Head(p) = Head(q) THEN PathBefore(Tail(p), Tail(q))
    ELSE NameIndex(Head(p)) < NameIndex(Head(q))

\* records of [size, path]: larger sizes first, equal sizes in path order
OrderedBySizeThenPath(recs) ==
    \A k \in 1..(Len(recs) - 1) :
        \/ recs[k].size > recs[k + 1].size
        \/ recs[k].size = recs[k + 1].size /\ PathBefore(recs[k].path, recs[k + 1].path)

\* C17 (record ordering): the records reported for one repository are in
\* descending order of size, records of equal size in the order of their
\* paths, whatever the order of the backend's listing.
C17_RecordOrdering ==
    /\ program = "scanner" =>
          \A i \in 1..Len(results) :
              LET files == results[i].large_files
              IN  OrderedBySizeThenPath(
                      [k \in 1..Len(files) |->
                          [size |-> files[k].size_bytes, path |-> files[k].path]])
    /\ (program = "graphql" /\ pc = "done") =>
          OrderedBySizeThenPath(
              [k \in 1..Len(report) |->
                  [size |-> report[k].Size_KB, path |-> report[k].Path]])
    /\ (program = "csv6" /\ pc = "done" /\ Len(repos) = 1) =>
          OrderedBySizeThenPath(
              [k \in 1..Len(report) |->
                  [size |-> report[k].Size_KB, path |-> report[k].Path]])

\* C18 (batch ordering): the batch handed to the sink lists the results in
\* the order of the repositories in the input list, also when the list is
\* not sorted by name and when some repositories fail.
C18_BatchOrdering ==
    /\ (program = "scanner" /\ pc = "done") =>
          /\ Len(report) = Len(repos)
          /\ \A i \in 1..Len(repos) : report[i].repository_url = repos[i].ident
    /\ (program = "csv7" /\ pc = "done") =>
          \A k, l \in 1..Len(report) :
              k < l =>
                  \E i, j \in 1..Len(repos) :
                      /\ i <= j
                      /\ repos[i].ident = report[k].repository
                      /\ repos[j].ident = report[l].repository

\* num / den rounded to 2 decimal places, ties upwards, in hundredths
RoundHalfUp2(num, den) == (2 * num * 100 + den) \div (2 * den)

\* C19 (size rounding): the record of a blob of b bytes reports b / 1024
\* rounded half-up to 2 places as its size in KB and b / 1024 / 1024 rounded
\* half-up to 2 places as its size in MB; a tie such as 0.125 becomes 0.13.
C19_SizeRounding ==
    (program \in {"csv6", "pygithub"} /\ pc = "done" /\ Len(repos) = 1) =>
        \A k \in 1..Len(report) :
            \A e \in AllEntries(TreeOf(repos[1].fx, threshold_kb)) :
                e.path = report[k].Path =>
                    /\ report[k].Size_KB = RoundHalfUp2(e.size, BytesPerKB)
                    /\ report[k].Size_MB = RoundHalfUp2(e.size, BytesPerKB * BytesPerKB)

-----------------------------------------------------------------------------
(* Properties of the start of a run *)

\* main has logged that the headers could not be built
AuthenticationFailed ==
    \E k \in 1..Len(errlog) : errlog[k].what = "Authentication failed"

\* C21 (authentication failure at startup): certificate authentication fails
\* when the private key cannot be read or the token exchange is answered with
\* a non-2xx status, and succeeds on every 2xx answer; a run whose
\* authentication failed scans no repository and writes no result.
C21_AuthFailureAtStartup ==
    (program = "scanner" /\ args.auth_type = "cert" /\ pc # "start") =>
        /\ AuthenticationFailed <=> (args.key # "ok" \/ args.exchange \notin 200..299)
        /\ AuthenticationFailed =>
              /\ pc = "exited" /\ results = <<>> /\ ~written /\ report = <<>>
              /\ \A i \in 1..Len(sent) : sent[i].to = "access_tokens"

-----------------------------------------------------------------------------
(* Properties of the walkers *)

\* the records of a sequence as pairs of path and size in KB
PathsAndSizes(records) == {<<f.Path, f.Size_KB>> : f \in Range(records)}

\* the row's tree is finite: no directory lists itself
FiniteTree(r) == r.fx # "cycle"

\* C22 (traversal-order independence): on a finite tree and with the same
\* threshold the stack walker, the queue walker and the recursive walker
\* produce the same set of records; only their order may differ.
C22_TraversalOrderIndependence ==
    (/\ program \in {"graphql", "pygithub"} /\ pc = "done" /\ Len(repos) = 1
     /\ Healthy(repos[1]) /\ Accepted(repos[1]) /\ FiniteTree(repos[1])) =>
        PathsAndSizes(report)
            = PathsAndSizes(WalkTreeRecursive(repos[1], threshold_kb, <<RootEntry>>, MaxFetch))

\* the records the walker of the running script has collected
WalkerRecords == IF program = "graphql" THEN large_files ELSE all_large_files

\* a per-directory walker has been called on a finite tree whose requests
\* are all answered
BoundedWalkCase ==
    /\ program \in {"graphql", "csv6"} /\ pc = "walk" /\ Len(repos) = 1
    /\ Healthy(repos[1]) /\ Accepted(repos[1]) /\ FiniteTree(repos[1])

\* the walk is over: nothing is pending, each directory was fetched once,
\* each record is the record of a blob of its own
BoundedWalkEnded ==
    /\ pc = "done" /\ stack = <<>> /\ frames = <<>>
    /\ NoDuplicates(fetched)
    /\ Range(fetched) = Dirs(repos[1].fx, threshold_kb)
    /\ NoDuplicates([k \in 1..Len(WalkerRecords) |-> WalkerRecords[k].Path])
    /\ \A f \in Range(WalkerRecords) :
          \E e \in AllEntries(TreeOf(repos[1].fx, threshold_kb)) :
              e.type = "blob" /\ e.path = f.Path

\* C23 (bounded walk): on a finite tree whose paths are distinct the
\* per-directory walker terminates with no pending path, after exactly one
\* fetch per directory, the root included, and at most one record per blob.
C23_BoundedWalk == BoundedWalkCase ~> BoundedWalkEnded

\* C23, its case: a walk of a tree with subdirectories has ended with records
C23_Witness ==
    /\ program \in {"graphql", "csv6"} /\ Len(repos) = 1
    /\ Healthy(repos[1]) /\ Accepted(repos[1]) /\ FiniteTree(repos[1])
    /\ BoundedWalkEnded
    /\ Len(fetched) >= 3 /\ WalkerRecords # <<>>

\* C24 (single revision per scan): the revision is resolved once at the
\* start of a scan and every directory request of the traversal is evaluated
\* against that commit, also when the head of the default branch moves
\* while the traversal is in progress.
C24_SingleRevision ==
    program \in {"graphql", "csv6"} =>
        \A k \in 1..Len(evaluated) : evaluated[k] = revision.oid

-----------------------------------------------------------------------------
(* Properties of the records *)

\* the blobs of the row's tree
Blobs(r) == {e \in AllEntries(TreeOf(r.fx, threshold_kb)) : e.type = "blob"}

\* C25 (record paths are root-relative): the path of every record is the
\* path of its blob from the root of the repository, b/c.bin for the blob
\* c.bin of directory b, also where the path is built from a prefix and the
\* entry's own name or path.
C25_RootRelativePaths ==
    /\ program = "scan_repos1" =>
          \A i \in 1..Len(results) :
              \A f \in Range(results[i].large_files) :
                  \E e \in Blobs(repos[i]) : f.path = e.path
    /\ program = "csv7" =>
          \A f \in Range(all_large_files) :
              \E j \in 1..Len(repos) :
                  /\ repos[j].ident = f.repository
                  /\ \E e \in Blobs(repos[j]) :
                        f.file_path = e.path /\ f.size_kb = Round2(e.size, BytesPerKB)
    /\ program = "csv6" =>
          \A f \in Range(all_large_files) :
              \E j \in 1..Len(repos) :
                  /\ repos[j].ident = f.Repository
                  /\ \E e \in Blobs(repos[j]) :
                        f.Path = e.path /\ f.Size_KB = Round2(e.size, BytesPerKB)

-----------------------------------------------------------------------------
(* Properties of the input rows *)

\* the identifier is owner/name
OwnerNameForm(parts) == Len(parts) = 2 /\ parts[1] # "" /\ parts[2] # ""

\* the identifier is the URL of a repository: scheme, host, owner, name
UrlForm(parts) ==
    /\ Len(parts) = 5 /\ parts[1] \in {"https:", "http:"} /\ parts[2] = ""
    /\ parts[4] # "" /\ parts[5] # ""

\* the log has an entry for row i
LoggedFor(i) == \E k \in 1..Len(errlog) : errlog[k].i = i

\* C26 (identifier forms): an identifier in owner/name form or in URL form
\* is resolved to its repository and scanned; an identifier in neither form
\* is skipped or recorded as that row's error; no identifier stops the
\* processing of the identifiers after it.
C26_IdentifierForms ==
    program \in {"scanner", "csv6", "scan_repos1"} =>
        /\ pc # "crashed"
        /\ \A i \in Finished :
              LET r == repos[i]
                  known == OwnerNameForm(r.ident) \/ UrlForm(r.ident)
                  answered == r.info = "ok" /\ r.tree_status = 200 /\ r.fail = {}
              IN  /\ (known /\ answered) =>
                        /\ program = "scanner" => results[i].status = "success"
                        /\ program = "scan_repos1" => results[i].error = Absent
                        /\ program = "csv6" => ~LoggedFor(i)
                  /\ ~known =>
                        /\ program = "scanner" => results[i].status = "error"
                        /\ program = "scan_repos1" => results[i].error # Absent
                        /\ program = "csv6" => LoggedFor(i)

-----------------------------------------------------------------------------
(* Properties of an interrupted traversal *)

\* the qualifying blobs the root lists before its directory d: their
\* records are collected when the expansion of d is attempted
CollectedBefore(r, d) ==
    LET root == TreeOf(r.fx, threshold_kb)[Root]
    IN  {root[k] : k \in {k \in 1..Len(root) :
             /\ root[k].type = "blob" /\ ExceedsKB(root[k].size, threshold_kb)
             /\ \E l \in 1..Len(root) : k < l /\ root[l].path = d}}

\* C27 (partial results are kept): when the traversal of a repository ends
\* early because the expansion of a directory fails, the records collected
\* before that point are part of the repository's reported result.
C27_PartialResultsKept ==
    (/\ program \in {"csv6", "pygithub"} /\ pc = "done" /\ Len(repos) = 1
     /\ repos[1].info = "ok" /\ Accepted(repos[1]) /\ FiniteTree(repos[1])) =>
        \A d \in repos[1].fail :
            \A e \in CollectedBefore(repos[1], d) :
                \E f \in Range(report) : f.Path = e.path

-----------------------------------------------------------------------------
(* Properties of the per-directory requests *)

\* C28 (root expression): the first request of a traversal names the root
\* as "<revision>:" and so returns the root's entries: the directories the
\* root lists are expanded and its qualifying blobs recorded; a root that
\* has entries is never seen as empty.
C28_RootExpression ==
    (/\ program \in {"find", "graphql", "csv6"} /\ pc = "done" /\ Len(repos) = 1
     /\ Healthy(repos[1]) /\ Accepted(repos[1]) /\ FiniteTree(repos[1])) =>
        LET root == TreeOf(repos[1].fx, threshold_kb)[Root]
        IN  \A k \in 1..Len(root) :
                /\ root[k].type = "tree" => root[k].path \in Range(fetched)
                /\ (root[k].type = "blob" /\ ExceedsKB(root[k].size, threshold_kb)) =>
                      \E f \in Range(report) : f.Path = root[k].path

\* C29 (missing objects yield no entries): get_tree_entries returns an empty
\* list and does not raise when the answer's repository or object is null or
\* the object is no tree, so that the path is treated as having no children.
C29_MissingObjectsYieldNoEntries ==
    program = "get_tree_entries" =>
        \A k \in 1..Len(results) :
            (/\ results[k].status = 200
             /\ ~results[k].repository \/ results[k].object \in {"null", "other"}) =>
                ~results[k].raised /\ results[k].entries = <<>>

\* the blobs of the row's tree that carry a size above the threshold
SoundBlobs(r) ==
    {e \in Blobs(r) : e.size # NoSize /\ e.size > threshold_kb * BytesPerKB}

\* C30 (soundness): every record of a traversal is the record of a blob
\* that carries a size above the threshold; a tree, a submodule entry or a
\* blob entry without a size never gets a record.
C30_Soundness ==
    /\ program = "graphql" =>
          \A f \in Range(large_files) :
              \E e \in SoundBlobs(repos[1]) : e.path = f.Path
    /\ program = "csv6" =>
          \A f \in Range(all_large_files) :
              \E j \in 1..Len(repos) : \E e \in SoundBlobs(repos[j]) : e.path = f.Path
    /\ program = "csv7" =>
          \A f \in Range(all_large_files) :
              \E j \in 1..Len(repos) : \E e \in SoundBlobs(repos[j]) : e.path = f.file_path
    /\ program = "scan_repos1" =>
          \A i \in 1..Len(results) :
              \A f \in Range(results[i].large_files) :
                  \E e \in SoundBlobs(repos[i]) : e.name = Last(f.path)

====
